---- MODULE Spec2Model ----
(***************************************************************************)
(* GraphManager of the conversational knowledge-graph backend              *)
(* (backend/src/core/graph_manager.py): the graph snapshot with its        *)
(* indices and centrality map, the conversation context (decayed mention   *)
(* weights, last-seen stamps, query statistics) and the contextual         *)
(* subgraph builder with its connectivity repair.                          *)
(*                                                                         *)
(* Numbers.  Python floats are modelled as exact rationals over integers:  *)
(*   - a mention weight w is stored as w * unit, unit = RateDen^cap, so    *)
(*     that cap multiplications by the decay rate are exact;               *)
(*   - a centrality c is stored as c * CentDen;                            *)
(*   - the clock counts whole hours, so exp(-(-ln r) * dh) = r^dh is a     *)
(*     rational;                                                           *)
(*   - importance scores are compared through their numerators over one    *)
(*     common positive denominator.                                        *)
(***************************************************************************)
EXTENDS Integers, Sequences, FiniteSets, TLC

VARIABLES
    graph_file,        \* what reload_graph last found at self.graph_path
    graph,             \* self.graph: [nodes : Seq(id), edges : set of 2-sets, attrs]
    label_index,       \* self.label_index: lower-cased label -> set of ids
    node_metadata,     \* self.node_metadata: id -> [id, label, type, description]
    centrality,        \* self._centrality: id -> score * CentDen
    entity_frequency,  \* self.entity_frequency: id -> weight * unit
    entity_last_seen,  \* self.entity_last_seen: id -> hour of last mention
    total_queries,     \* self.total_queries
    response_times,    \* self.response_times
    last_entities,     \* self.last_entities
    last_query,        \* self.last_query ("" stands for None)
    last_response,     \* self.last_response ("" stands for None)
    decay_rate,        \* settings.TEMPORAL_DECAY_RATE as <<numerator, denominator>>
    unit,              \* integer that stands for the weight 1.0
    now,               \* datetime.utcnow(), in whole hours
    pc,                \* position of the caller: "idle" | "built" | "repaired" | "rendered"
    res,               \* the value the last builder call handed to its caller
    vis,               \* the value the last graph_to_vis_format call handed back
    ret,               \* the value the last extract_entities or
                       \* calculate_node_importance call handed back
    running,           \* the coroutine the event loop is executing, between two awaits
    hpc,               \* query handler -> its position
    turn,              \* query handler -> its local variables
    answered,          \* number of lightrag.query calls that have returned
    ingest_task,       \* self._ingest_task: 0 for None, else the runner task
    ingest_status,     \* self._ingest_status
    ingest_lock,       \* holder of self._ingest_lock: 0 when it is free
    runners,           \* runner task -> its position and local variables
    finalizers,        \* finalize task -> its position and the task it awaits
    reply              \* what the last start_ingestion call returned

vars == <<graph_file, graph, label_index, node_metadata, centrality, entity_frequency,
          entity_last_seen, total_queries, response_times, last_entities,
          last_query, last_response, decay_rate, unit, now, pc, res, vis, ret, running, hpc, turn, answered,
          ingest_task, ingest_status, ingest_lock, runners, finalizers, reply>>

snapshotVars == <<graph, label_index, node_metadata, centrality>>
statVars == <<total_queries, response_times, last_entities, last_query, last_response>>
contextVars == <<entity_frequency, entity_last_seen, statVars>>
settingVars == <<decay_rate, unit>>
callVars == <<pc, res, vis, ret>>
handlerVars == <<hpc, turn, answered>>
ingestVars == <<ingest_task, ingest_status, ingest_lock, runners, reply>>
serviceVars == <<running, handlerVars, ingestVars, finalizers>>

----------------------------------------------------------------------------
(* Bounds of the model *)

MaxTurns == 1          \* conversation turns in the builder specification
MaxClock == 1          \* hours the clock may advance
MaxNodesArg == 3       \* largest explicit max_nodes argument below the default
MaxDecayTurns == 6     \* conversation turns in the context specification
MaxRuns == 2           \* ingestion runner tasks
MaxRequests == 3       \* POST /documents/ingest requests
MaxDocs == 2           \* documents in the corpus directory
MaxQueries == 2        \* queries the handlers take up
MaxReloads == 1        \* ingestion requests in the service specification
MaxAccepted == 2       \* ingestion requests in the finalize specification

(* Program constants *)

MAX_GRAPH_NODES == 100
MAX_HOPS == 2
DefaultRateNum == 19
DefaultRateDen == 20
ENTITY_FREQUENCY_WEIGHT == 3
RECENCY_WEIGHT == 2
CENTRALITY_WEIGHT == 3
FOCAL_WEIGHT == 2
EvictBelowDen == 10000
RateFloorDen == 1000000
Inf == 1000
CentDen == 120

----------------------------------------------------------------------------
(* Input sets *)

Ids == {"A", "B", "C", "D", "E"}
IdOrder == <<"A", "B", "C", "D", "E">>

NoAttrs == [name |-> "", label |-> "", title |-> "", entity_type |-> "",
            type |-> "", description |-> "", summary |-> ""]

Edge(a, b) == {a, b}

\* the weight attribute of an edge: absent, a number, or a string that is no number
NoWeight == [kind |-> "absent", value |-> 0]
NumberWeight(n) == [kind |-> "number", value |-> n]
TextWeight == [kind |-> "text", value |-> 0]

NoEdgeAttrs == [relation |-> "", label |-> "", type |-> "", weight |-> NoWeight,
                keywords |-> ""]

\* What graph_path holds: nothing readable, or one of four GraphML files.
\* pagerank is what nx.pagerank returns for the file, in units of 1/CentDen.
MissingFile ==
    [exists |-> FALSE, readable |-> FALSE, nodes |-> << >>, edges |-> {},
     attrs |-> << >>, eattrs |-> << >>, pagerank |-> << >>]

PairsFile ==
    [exists |-> TRUE, readable |-> TRUE,
     nodes |-> <<"A", "B", "C", "D">>,
     edges |-> {Edge("A", "B"), Edge("C", "D")},
     attrs |-> [v \in {"A", "B", "C", "D"} |->
                 CASE v = "A" -> [NoAttrs EXCEPT !.name = "Ann", !.entity_type = "PERSON"]
                   [] v = "B" -> [NoAttrs EXCEPT !.label = "Bob", !.type = "ORG"]
                   [] v = "C" -> [NoAttrs EXCEPT !.title = "ANN", !.summary = "s"]
                   [] OTHER -> NoAttrs],
     eattrs |-> [e \in {Edge("A", "B"), Edge("C", "D")} |->
                 IF e = Edge("A", "B")
                 THEN [NoEdgeAttrs EXCEPT !.relation = "knows", !.weight = NumberWeight(2),
                                          !.keywords = "k"]
                 ELSE [NoEdgeAttrs EXCEPT !.type = "link"]],
     pagerank |-> [v \in {"A", "B", "C", "D"} |-> 30]]

\* a file with a graph in it that nx.read_graphml fails on
CorruptFile == [PairsFile EXCEPT !.readable = FALSE]

PathFile ==
    [exists |-> TRUE, readable |-> TRUE,
     nodes |-> <<"A", "B", "C", "D", "E">>,
     edges |-> {Edge("A", "B"), Edge("B", "C"), Edge("C", "D"), Edge("D", "E")},
     attrs |-> [v \in Ids |->
                 CASE v = "A" -> [NoAttrs EXCEPT !.name = "Ann", !.label = "Bob"]
                   [] v = "E" -> [NoAttrs EXCEPT !.label = "Bob", !.description = "d",
                                                 !.type = "person"]
                   [] OTHER -> NoAttrs],
     eattrs |-> [e \in {Edge("A", "B"), Edge("B", "C"), Edge("C", "D"), Edge("D", "E")} |->
                 IF e = Edge("D", "E")
                 THEN [NoEdgeAttrs EXCEPT !.label = "near", !.weight = NumberWeight(3)]
                 ELSE NoEdgeAttrs],
     pagerank |-> [v \in Ids |->
                 CASE v \in {"A", "E"} -> 16
                   [] v \in {"B", "D"} -> 30
                   [] OTHER -> 29]]

StarFile ==
    [exists |-> TRUE, readable |-> TRUE,
     nodes |-> <<"B", "A", "C", "D">>,
     edges |-> {Edge("A", "B"), Edge("A", "C"), Edge("A", "D")},
     attrs |-> [v \in {"A", "B", "C", "D"} |-> NoAttrs],
     eattrs |-> [e \in {Edge("A", "B"), Edge("A", "C"), Edge("A", "D")} |->
                 IF e = Edge("A", "D")
                 THEN [NoEdgeAttrs EXCEPT !.weight = TextWeight]
                 ELSE NoEdgeAttrs],
     pagerank |-> [v \in {"A", "B", "C", "D"} |-> IF v = "A" THEN 58 ELSE 21]]

ChainFile ==
    [exists |-> TRUE, readable |-> TRUE,
     nodes |-> <<"E", "D", "C", "B", "A">>,
     edges |-> {Edge("A", "B"), Edge("B", "C"), Edge("D", "E")},
     attrs |-> [v \in Ids |-> NoAttrs],
     eattrs |-> [e \in {Edge("A", "B"), Edge("B", "C"), Edge("D", "E")} |-> NoEdgeAttrs],
     pagerank |-> [v \in Ids |->
                 CASE v \in {"A", "C"} -> 18
                   [] v = "B" -> 35
                   [] OTHER -> 24]]

GraphFiles == {MissingFile, CorruptFile, PairsFile, PathFile, StarFile, ChainFile}

Latencies == {1}
Queries == {"q"}
Responses == {"r"}
Mentions == SUBSET {"A", "E"}
FocalSets == {F \in SUBSET Ids : Cardinality(F) <= 2}
HopArgs == 0 .. MAX_HOPS
NodeArgs == (0 .. MaxNodesArg) \cup {MAX_GRAPH_NODES}

----------------------------------------------------------------------------
(* Small helpers *)

RECURSIVE Pow(_, _)
Pow(b, e) == IF e = 0 THEN 1 ELSE b * Pow(b, e - 1)

Range(s) == {s[i] : i \in DOMAIN s}

MaxOf(S) == CHOOSE x \in S : \A y \in S : y <= x

Position(s, v) == CHOOSE i \in DOMAIN s : s[i] = v

\* str.lower() on the labels the graph files use
Lower(s) ==
    CASE s = "Ann" -> "ann"
      [] s = "ANN" -> "ann"
      [] s = "Bob" -> "bob"
      [] s = "A" -> "a"
      [] s = "B" -> "b"
      [] s = "C" -> "c"
      [] s = "D" -> "d"
      [] s = "E" -> "e"
      [] s = "Ann met Bob" -> "ann met bob"
      [] OTHER -> s

\* str.upper() on the node types the graph files use
Upper(s) ==
    CASE s = "person" -> "PERSON"
      [] OTHER -> s

\* `label_lower in lowered` on the lower-cased labels and texts of the model
Occurs(label_lower, lowered) ==
    CASE lowered = "ann met bob" -> label_lower \in {"ann", "bob", "a", "b", "e"}
      [] lowered = "ann" -> label_lower \in {"ann", "a"}
      [] lowered = "q" -> FALSE
      [] lowered = "r" -> FALSE
      [] OTHER -> label_lower = lowered

\* Python's `a or b` on strings: the first non-empty operand
OrStr(a, b) == IF a # "" THEN a ELSE b

\* Python's `x or default` on an integer argument: 0 is falsy
OrDefault(x, default) == IF x # 0 THEN x ELSE default

----------------------------------------------------------------------------
(* The graph (networkx.Graph) *)

EmptyGraph == [nodes |-> << >>, edges |-> {}, attrs |-> << >>, eattrs |-> << >>]

Nodes(g) == Range(g.nodes)
NumberOfNodes(g) == Len(g.nodes)
Adj(g, v) == {u \in Nodes(g) : Edge(u, v) \in g.edges}

\* nx.read_graphml on a file it can read
ReadGraphml(file) ==
    [nodes |-> file.nodes, edges |-> file.edges, attrs |-> file.attrs,
     eattrs |-> file.eattrs]

\* a node view that keeps every id it is given
SubgraphNodesUnfiltered(g, nbunch) == nbunch

\* Graph.subgraph(nbunch): ids that are not nodes of the graph are dropped
SubgraphNodes(g, nbunch) == nbunch \cap Nodes(g)
SubgraphEdges(g, nbunch) == {e \in g.edges : e \subseteq nbunch}

\* nx.ego_graph(g, v, radius).nodes
RECURSIVE EgoNodes(_, _, _)
EgoNodes(g, v, radius) ==
    IF radius = 0 THEN {v}
    ELSE LET inner == EgoNodes(g, v, radius - 1)
         IN inner \cup UNION {Adj(g, u) : u \in inner}

\* nodes reachable from v inside the node set S
RECURSIVE ReachIn(_, _, _)
ReachIn(g, S, seen) ==
    LET more == (UNION {Adj(g, u) : u \in seen}) \cap S
    IN IF more \subseteq seen THEN seen ELSE ReachIn(g, S, seen \cup more)

\* nx.connected_components of the subgraph induced on S
ConnectedComponents(g, S) ==
    {ReachIn(g, S \cap Nodes(g), {v}) : v \in S \cap Nodes(g)}

\* nx.shortest_path_length: Inf stands for NetworkXNoPath / NodeNotFound
RECURSIVE DistFrom(_, _, _, _)
DistFrom(g, frontier, dst, d) ==
    IF dst \in frontier THEN d
    ELSE LET next == frontier \cup UNION {Adj(g, u) : u \in frontier}
         IN IF next = frontier THEN Inf ELSE DistFrom(g, next, dst, d + 1)

ShortestPathLengthSafe(g, src, dst) ==
    IF src \notin Nodes(g) \/ dst \notin Nodes(g) THEN Inf
    ELSE DistFrom(g, {src}, dst, 0)

\* nx.shortest_path: the shortest paths src..dst; none when the call raises
RECURSIVE PathsOfLength(_, _, _, _)
PathsOfLength(g, src, dst, d) ==
    IF d = 0 THEN {<<src>>}
    ELSE UNION {{<<src>> \o p : p \in PathsOfLength(g, u, dst, d - 1)} :
                u \in {w \in Adj(g, src) : ShortestPathLengthSafe(g, w, dst) = d - 1}}

ShortestPath(g, src, dst) ==
    LET d == ShortestPathLengthSafe(g, src, dst)
    IN IF d = Inf THEN {} ELSE PathsOfLength(g, src, dst, d)

\* the paths when NetworkXNoPath / NodeNotFound is not caught
ShortestPathUncaught(g, src, dst) == ShortestPath(g, src, dst)

ShortestPathSafe(g, src, dst) ==
    IF ShortestPath(g, src, dst) = {} THEN {<<src>>} ELSE ShortestPath(g, src, dst)

----------------------------------------------------------------------------
(* Snapshot: reload_graph, _build_indices, _compute_centrality *)

\* a resolution that looks at the label attribute before the name
ResolveLabelLabelFirst(node_id, data) ==
    OrStr(data.label, OrStr(data.name, OrStr(data.title, node_id)))

ResolveLabel(node_id, data) ==
    OrStr(data.name, OrStr(data.label, OrStr(data.title, node_id)))

NodeType(data) == OrStr(data.entity_type, OrStr(data.type, "ENTITY"))
NodeDescription(data) == OrStr(data.description, data.summary)

\* label_index after _build_indices: one bucket per lower-cased label
BuildLabelIndex(g) ==
    LET labelOf(v) == Lower(ResolveLabel(v, g.attrs[v]))
    IN [l \in {labelOf(v) : v \in Nodes(g)} |-> {v \in Nodes(g) : labelOf(v) = l}]

BuildNodeMetadata(g) ==
    [v \in Nodes(g) |->
        [id |-> v,
         label |-> ResolveLabel(v, g.attrs[v]),
         type |-> NodeType(g.attrs[v]),
         description |-> NodeDescription(g.attrs[v])]]

\* nx.degree_centrality
DegreeCentrality(g) ==
    IF NumberOfNodes(g) <= 1 THEN [v \in Nodes(g) |-> CentDen]
    ELSE [v \in Nodes(g) |->
            (Cardinality(Adj(g, v)) * CentDen) \div (NumberOfNodes(g) - 1)]

\* _compute_centrality: pagerank, or degree centrality when pagerank raises
ComputeCentrality(g, pagerank, converged) ==
    IF NumberOfNodes(g) = 0 THEN << >>
    ELSE IF converged THEN pagerank
    ELSE DegreeCentrality(g)

\* label_index (a defaultdict) after `for label_lower, node_ids in
\* label_index.items()`: iteration inserts nothing
IndexAfterItems(index) == index

\* a load that keeps whatever the file holds, also when the read fails
LoadGraphUnguarded(file) == ReadGraphml(file)

LoadGraph(file) ==
    IF file.exists /\ file.readable THEN ReadGraphml(file) ELSE EmptyGraph

ReloadGraph(file, converged) ==
    /\ pc = "idle"
    /\ graph' = LoadGraph(file)
    /\ label_index' = BuildLabelIndex(LoadGraph(file))
    /\ node_metadata' = BuildNodeMetadata(LoadGraph(file))
    /\ centrality' = ComputeCentrality(LoadGraph(file), file.pagerank, converged)
    /\ graph_file' = file
    /\ UNCHANGED <<contextVars, settingVars, now, callVars>>

----------------------------------------------------------------------------
(* Conversation context: apply_temporal_decay, update_conversation_context *)

RateNum == decay_rate[1]
RateDen == decay_rate[2]

\* w <= 1e-4: the threshold itself is evicted too
BelowOrAtEvictionThreshold(w) == w <= (unit + EvictBelowDen - 1) \div EvictBelowDen

\* w < 1e-4 for a weight stored as w * unit
BelowEvictionThreshold(w) == w < (unit + EvictBelowDen - 1) \div EvictBelowDen

\* one weight after `*= TEMPORAL_DECAY_RATE`
Decayed(w) == (w * RateNum) \div RateDen

\* a turn that skips the decay
NoTemporalDecay(freq) == freq

ApplyTemporalDecay(freq) ==
    LET kept == {v \in DOMAIN freq : ~BelowEvictionThreshold(Decayed(freq[v]))}
    IN [v \in kept |-> Decayed(freq[v])]

FreqOf(freq, v) == IF v \in DOMAIN freq THEN freq[v] ELSE 0

\* the defaultdict after `entity_frequency[node_id]` for each id: a missing key
\* is inserted with 0.0
FrequencyAfterSubscript(freq, node_ids) ==
    [v \in DOMAIN freq \cup node_ids |-> FreqOf(freq, v)]

\* the defaultdict after `entity_frequency.get(node_id, 0.0)` for each id
FrequencyAfterGet(freq, node_ids) == freq

UpdateConversationContext(query, response, entities, response_time, cap) ==
    /\ pc = "idle"
    /\ total_queries < cap
    /\ LET decayed == ApplyTemporalDecay(entity_frequency)
       IN entity_frequency' =
            [v \in DOMAIN decayed \cup entities |->
                IF v \in entities THEN FreqOf(decayed, v) + unit ELSE decayed[v]]
    /\ entity_last_seen' =
            [v \in DOMAIN entity_last_seen \cup entities |->
                IF v \in entities THEN now ELSE entity_last_seen[v]]
    /\ last_entities' = entities
    /\ last_query' = query
    /\ last_response' = response
    /\ total_queries' = total_queries + 1
    /\ response_times' = Append(response_times, response_time)
    /\ UNCHANGED <<snapshotVars, settingVars, graph_file, now, callVars>>

\* the wall clock moves on
Tick ==
    /\ pc = "idle"
    /\ now < MaxClock
    /\ now' = now + 1
    /\ UNCHANGED <<snapshotVars, contextVars, settingVars, graph_file, callVars>>

----------------------------------------------------------------------------
(* calculate_node_importance, _recency_score *)

\* max(TEMPORAL_DECAY_RATE, 1e-6)
FlooredRate ==
    IF RateNum * RateFloorDen < RateDen THEN <<1, RateFloorDen>> ELSE decay_rate

\* denominator shared by every recency score: rate^dh with dh <= MaxClock
RecencyDen == Pow(FlooredRate[2], MaxClock)

\* _recency_score(node) * RecencyDen
RecencyScore(node_id) ==
    IF node_id \notin DOMAIN entity_last_seen THEN 0
    ELSE LET delta == IF now - entity_last_seen[node_id] > 0
                      THEN now - entity_last_seen[node_id] ELSE 0
         IN Pow(FlooredRate[1], delta) * Pow(FlooredRate[2], MaxClock - delta)

MaxFreq ==
    IF DOMAIN entity_frequency = {} THEN unit
    ELSE MaxOf({entity_frequency[v] : v \in DOMAIN entity_frequency})

CentralityOf(node_id) ==
    IF node_id \in DOMAIN centrality THEN centrality[node_id] ELSE 0

\* calculate_node_importance(node, focal) * 10 * MaxFreq * RecencyDen * CentDen;
\* the factor is the same positive number for every node of one state.
CalculateNodeImportance(node_id, focal_entities) ==
    LET freq == FreqOf(entity_frequency, node_id)
        focal_score == IF node_id \in focal_entities THEN 1 ELSE 0
    IN IF MaxFreq = 0
       THEN RECENCY_WEIGHT * RecencyScore(node_id) * CentDen
            + CENTRALITY_WEIGHT * CentralityOf(node_id) * RecencyDen
            + FOCAL_WEIGHT * focal_score * RecencyDen * CentDen
       ELSE ENTITY_FREQUENCY_WEIGHT * freq * RecencyDen * CentDen
            + RECENCY_WEIGHT * RecencyScore(node_id) * MaxFreq * CentDen
            + CENTRALITY_WEIGHT * CentralityOf(node_id) * MaxFreq * RecencyDen
            + FOCAL_WEIGHT * focal_score * MaxFreq * RecencyDen * CentDen

----------------------------------------------------------------------------
(* _ensure_connectivity *)

\* max(components, key=|comp & focal_entities|): the first maximum of a list
\* whose order networkx fixes, so any component with the largest overlap
BaseComponents(components, focal_entities) ==
    {c \in components :
        \A d \in components :
            Cardinality(d \cap focal_entities) <= Cardinality(c \cap focal_entities)}

\* min(focal, key=distance from source): any focal entity at the least distance
NearestFocal(g, source, focal) ==
    {t \in focal :
        \A u \in focal :
            ShortestPathLengthSafe(g, source, t) <= ShortestPathLengthSafe(g, source, u)}

\* for node in path: selected_nodes.add(node); stop once the budget is reached
RECURSIVE AddPath(_, _, _, _)
AddPath(selected, path, i, max_nodes) ==
    IF i > Len(path) THEN [selected |-> selected, full |-> FALSE]
    ELSE LET grown == selected \cup {path[i]}
         IN IF Cardinality(grown) >= max_nodes
            THEN [selected |-> grown, full |-> TRUE]
            ELSE AddPath(grown, path, i + 1, max_nodes)

\* the loop over the components other than the base component, in any order
RECURSIVE Stitch(_, _, _, _, _)
Stitch(g, selected, todo, focal, max_nodes) ==
    IF todo = {} THEN {[selected |-> selected, raised |-> FALSE]}
    ELSE UNION {UNION {UNION {
            IF ShortestPathSafe(g, source, target) = {}
            THEN {[selected |-> selected, raised |-> TRUE]}
            ELSE UNION {
                    LET added == AddPath(selected, path, 1, max_nodes)
                    IN IF added.full
                       THEN {[selected |-> added.selected, raised |-> FALSE]}
                       ELSE Stitch(g, added.selected, todo \ {component}, focal, max_nodes)
                    : path \in ShortestPathSafe(g, source, target)}
            : target \in NearestFocal(g, source, focal)}
            : source \in component}
            : component \in todo}

\* every value selected_nodes can have when _ensure_connectivity returns
EnsureConnectivity(g, selected_nodes, focal_entities, max_nodes) ==
    LET components == ConnectedComponents(g, selected_nodes)
        focal == focal_entities \cap Nodes(g)
        untouched == {[selected |-> selected_nodes, raised |-> FALSE]}
    IN IF focal_entities = {} THEN untouched
       ELSE IF Cardinality(components) <= 1 THEN untouched
       ELSE IF focal = {} THEN untouched
       ELSE UNION {Stitch(g, selected_nodes, components \ {base}, focal, max_nodes) :
                   base \in BaseComponents(components, focal_entities)}

----------------------------------------------------------------------------
(* build_contextual_subgraph *)

\* candidate_nodes after the loop over the focal entities
CandidateNodes(g, focal_entities, max_hops) ==
    UNION {EgoNodes(g, entity, max_hops) : entity \in focal_entities \cap Nodes(g)}

\* sorted(graph.nodes(), key=centrality, reverse=True)[:max_nodes]: the sort is
\* stable, so equal scores keep the order of graph.nodes()
FallbackNodes(g, max_nodes) ==
    LET before(u, v) ==
            \/ CentralityOf(u) > CentralityOf(v)
            \/ /\ CentralityOf(u) = CentralityOf(v)
               /\ Position(g.nodes, u) < Position(g.nodes, v)
    IN {v \in Nodes(g) : Cardinality({u \in Nodes(g) : before(u, v)}) < max_nodes}

\* scored.sort(key=score, reverse=True); scored[:max_nodes]: the list is filled
\* in the iteration order of a set, so among equal scores any order can come out
RankedSelections(candidate_nodes, focal_entities, max_nodes) ==
    LET size == IF Cardinality(candidate_nodes) < max_nodes
                THEN Cardinality(candidate_nodes) ELSE max_nodes
    IN {T \in SUBSET candidate_nodes :
            /\ Cardinality(T) = size
            /\ \A a \in T : \A b \in candidate_nodes \ T :
                  CalculateNodeImportance(a, focal_entities)
                      >= CalculateNodeImportance(b, focal_entities)}

\* the selection when the focal entities are not added to it
ForceIncludeSkipped(selected_nodes, focal_entities) == selected_nodes

\* if focal_entities: selected_nodes.update(focal_entities)
ForceInclude(selected_nodes, focal_entities) == selected_nodes \cup focal_entities

NoResult ==
    [focal |-> {}, max_hops |-> 0, max_nodes |-> 0, empty_graph |-> TRUE,
     candidates |-> {}, ranked |-> {}, before |-> {}, after |-> {},
     nodes |-> {}, edges |-> {}, raised |-> FALSE]

\* every value build_contextual_subgraph can return, with its intermediate sets
BuildOutcomes(focal_entities, hops_arg, nodes_arg) ==
    IF NumberOfNodes(graph) = 0
    THEN {[NoResult EXCEPT !.focal = focal_entities, !.max_hops = hops_arg,
                           !.max_nodes = nodes_arg]}
    ELSE LET max_hops == OrDefault(hops_arg, MAX_HOPS)
             max_nodes == OrDefault(nodes_arg, MAX_GRAPH_NODES)
             ego == CandidateNodes(graph, focal_entities, max_hops)
             candidate_nodes == IF ego = {} THEN FallbackNodes(graph, max_nodes) ELSE ego
         IN UNION {
              LET selected_nodes == ForceInclude(ranked, focal_entities)
              IN {[focal |-> focal_entities, max_hops |-> hops_arg,
                   max_nodes |-> nodes_arg, empty_graph |-> FALSE,
                   candidates |-> candidate_nodes, ranked |-> ranked,
                   before |-> selected_nodes, after |-> repaired.selected,
                   nodes |-> SubgraphNodes(graph, repaired.selected),
                   edges |-> SubgraphEdges(graph, repaired.selected),
                   raised |-> repaired.raised]
                  : repaired \in EnsureConnectivity(graph, selected_nodes,
                                                     focal_entities, max_nodes)}
              : ranked \in RankedSelections(candidate_nodes, focal_entities, max_nodes)}

BuildContextualSubgraph(focal_entities, hops_arg, nodes_arg) ==
    /\ pc = "idle"
    /\ \E outcome \in BuildOutcomes(focal_entities, hops_arg, nodes_arg) :
          /\ res' = outcome
          /\ entity_frequency' = FrequencyAfterGet(entity_frequency, outcome.candidates)
    /\ pc' = "built"
    /\ UNCHANGED <<snapshotVars, entity_last_seen, statVars, settingVars, graph_file, now, vis, ret>>

----------------------------------------------------------------------------
(* extract_entities, calculate_node_importance as calls of their own *)

NoReturn == [matches |-> {}, score |-> 0]

\* extract_entities(text): the ids of every bucket whose label occurs in the text
ExtractEntities(text) ==
    UNION {label_index[label_lower] :
              label_lower \in {l \in DOMAIN label_index : Occurs(l, Lower(text))}}

ExtractEntitiesCall(text) ==
    /\ pc = "idle"
    /\ ret' = [NoReturn EXCEPT !.matches = ExtractEntities(text)]
    /\ label_index' = IndexAfterItems(label_index)
    /\ pc' = "matched"
    /\ UNCHANGED <<graph, node_metadata, centrality, contextVars, settingVars, graph_file, now,
                   res, vis>>

CalculateNodeImportanceCall(node_id, focal_entities) ==
    /\ pc = "idle"
    /\ ret' = [NoReturn EXCEPT !.score = CalculateNodeImportance(node_id, focal_entities)]
    /\ entity_frequency' = FrequencyAfterGet(entity_frequency, {node_id})
    /\ pc' = "scored"
    /\ UNCHANGED <<snapshotVars, entity_last_seen, statVars, settingVars, graph_file, now, res, vis>>

----------------------------------------------------------------------------
(* graph_to_vis_format *)

\* the networkx graph a caller hands to graph_to_vis_format: its nodes in
\* iteration order, its edges, and the attributes it carries
SubgraphCopy(g, node_ids) ==
    [nodes |-> SelectSeq(g.nodes, LAMBDA v : v \in node_ids),
     edges |-> SubgraphEdges(g, node_ids),
     attrs |-> [v \in node_ids \cap Nodes(g) |-> g.attrs[v]],
     eattrs |-> [e \in SubgraphEdges(g, node_ids) |-> g.eattrs[e]]]

\* ENTITY_COLORS.get(node_type.upper(), "#4a5568")
EntityColor(node_type) ==
    CASE Upper(node_type) = "PERSON" -> "#1f77b4"
      [] Upper(node_type) = "ORG" -> "#ff7f0e"
      [] Upper(node_type) = "EVENT" -> "#2ca02c"
      [] Upper(node_type) = "PLACE" -> "#9467bd"
      [] Upper(node_type) = "WORK" -> "#8c564b"
      [] Upper(node_type) = "DATE" -> "#17becf"
      [] OTHER -> "#4a5568"

\* data.get("weight", 1.0)
DefaultWeight == 1

\* float(data.get("weight", 1.0)) raises ValueError on a string that is no number
FloatRaises(weight) == weight.kind = "text"

FloatOf(weight) ==
    IF weight.kind = "absent" THEN DefaultWeight ELSE weight.value

NodePayload(subgraph, node_id, focal_entities, max_importance) ==
    LET known == node_id \in DOMAIN node_metadata
        node_type == IF known THEN node_metadata[node_id].type ELSE "ENTITY"
    IN [id |-> node_id,
        label |-> OrStr(IF known THEN node_metadata[node_id].label ELSE "",
                        ResolveLabel(node_id, subgraph.attrs[node_id])),
        type |-> node_type,
        description |-> IF known THEN node_metadata[node_id].description ELSE "",
        frequency |-> FreqOf(entity_frequency, node_id),
        is_focal |-> node_id \in focal_entities,
        \* size = 8 + 20 * importance / scaling, scaling = max_importance or 1.0
        size |-> IF max_importance = 0 THEN <<0, 1>>
                 ELSE <<CalculateNodeImportance(node_id, focal_entities), max_importance>>,
        color |-> EntityColor(node_type),
        centrality |-> CentralityOf(node_id)]

\* subgraph.edges() of an undirected graph lists an edge from its endpoint that
\* comes first in the graph's node order
LinkPayload(subgraph, e) ==
    LET first == CHOOSE u \in e : \A w \in e : Position(subgraph.nodes, u)
                                                   <= Position(subgraph.nodes, w)
        data == subgraph.eattrs[e]
    IN [source |-> first,
        target |-> IF e = {first} THEN first ELSE CHOOSE w \in e : w # first,
        relationship |-> OrStr(data.relation, OrStr(data.label, OrStr(data.type, "related"))),
        weight |-> FloatOf(data.weight),
        keywords |-> data.keywords]

NoVis == [raised |-> FALSE, nodes |-> << >>, links |-> {}]

\* graph_to_vis_format(subgraph, focal_entities); raised: the call ended in an
\* exception instead of a payload
GraphToVisFormat(subgraph, focal_entities) ==
    LET max_importance ==
            MaxOf({0} \cup {CalculateNodeImportance(v, focal_entities) :
                               v \in Range(subgraph.nodes)})
    IN IF \E e \in subgraph.edges : FloatRaises(subgraph.eattrs[e].weight)
       THEN [NoVis EXCEPT !.raised = TRUE]
       ELSE [raised |-> FALSE,
             nodes |-> [i \in 1 .. Len(subgraph.nodes) |->
                          NodePayload(subgraph, subgraph.nodes[i], focal_entities,
                                      max_importance)],
             links |-> {LinkPayload(subgraph, e) : e \in subgraph.edges}]

\* the caller of build_contextual_subgraph renders what it was handed, with the
\* focal set it built with
RenderSubgraph ==
    /\ pc = "built"
    /\ vis' = GraphToVisFormat(SubgraphCopy(graph, res.nodes), res.focal)
    /\ entity_frequency' = FrequencyAfterGet(entity_frequency, res.nodes)
    /\ pc' = "rendered"
    /\ UNCHANGED <<snapshotVars, entity_last_seen, statVars, settingVars, graph_file, now, res, ret>>

\* GET /graph/full: the whole graph with the entities of the last turn as focal
RenderFullGraph ==
    /\ pc = "idle"
    /\ vis' = GraphToVisFormat(SubgraphCopy(graph, Nodes(graph)), last_entities)
    /\ entity_frequency' = FrequencyAfterGet(entity_frequency, Nodes(graph))
    /\ pc' = "rendered_full"
    /\ UNCHANGED <<snapshotVars, entity_last_seen, statVars, settingVars, graph_file, now, res, ret>>

\* the caller is done with the value it was handed
ReturnToCaller ==
    /\ pc # "idle"
    /\ pc' = "idle"
    /\ res' = NoResult
    /\ vis' = NoVis
    /\ ret' = NoReturn
    /\ UNCHANGED <<snapshotVars, contextVars, settingVars, graph_file, now>>

----------------------------------------------------------------------------
(* The event loop.  Handlers and tasks are coroutines of one asyncio loop:   *)
(* a coroutine that runs keeps the loop until its next await.               *)

NoCoroutine == <<"none", 0>>
HandlerCo(h) == <<h, 0>>
RunnerCo(r) == <<"runner", r>>
FinalizerCo(f) == <<"finalize", f>>

\* a scheduler that lets a coroutine run at any time, as threads would
ScheduledAnytime(co, resuming) == TRUE

\* co may take a step: it resumes from an await when the loop is free, and
\* continues from statement to statement while it holds the loop
Scheduled(co, resuming) ==
    IF resuming THEN running = NoCoroutine ELSE running = co

----------------------------------------------------------------------------
(* LightRAGWrapper: start_ingestion, its runner task, ingest_corpus *)

RunnerIds == 1 .. MaxRuns
FinalizerIds == 1 .. MaxRequests

\* a document of the corpus directory: load_document_text raises on it
\* ("unreadable"), gives blank text ("blank") or gives text ("text")
DocKinds == {"text", "blank", "unreadable"}
Corpora == UNION {[1 .. n -> DocKinds] : n \in 0 .. MaxDocs}

\* IngestStatus(): the defaults of the schema
IdleStatus == [status |-> "idle", documents_processed |-> 0, total_documents |-> 0]

NoRunner == [pos |-> "unborn", files |-> << >>, total |-> 0, processed |-> 0,
             errors |-> 0, raised |-> FALSE]

\* self._ingest_task and not self._ingest_task.done(), ignoring the task
TaskRunningNever == FALSE

\* self._ingest_task and not self._ingest_task.done()
TaskRunning == ingest_task # 0 /\ runners[ingest_task].pos # "done"

UnbornRunners == {r \in RunnerIds : runners[r].pos = "unborn"}
NextRunner == CHOOSE r \in UnbornRunners : \A q \in UnbornRunners : r <= q

\* start_ingestion: it has no await, so it runs in one piece; the values of
\* ingest_status, ingest_task, runners and reply after the call
StartIngestion ==
    IF TaskRunning
    THEN /\ reply' = ingest_status
         /\ UNCHANGED <<ingest_status, ingest_task, runners>>
    ELSE /\ UnbornRunners # {}
         /\ ingest_status' = [IdleStatus EXCEPT !.status = "processing"]
         /\ runners' = [runners EXCEPT ![NextRunner] = [NoRunner EXCEPT !.pos = "created"]]
         /\ ingest_task' = NextRunner
         /\ reply' = [IdleStatus EXCEPT !.status = "processing"]

\* runner(): await self.ingest_corpus(...); `async with self._ingest_lock`
\* takes a free lock without suspending and waits for a held one
RunnerStart(r) ==
    /\ runners[r].pos = "created"
    /\ Scheduled(RunnerCo(r), TRUE)
    /\ IF ingest_lock = 0
       THEN /\ ingest_lock' = r
            /\ runners' = [runners EXCEPT ![r].pos = "listing"]
            /\ running' = RunnerCo(r)
       ELSE /\ runners' = [runners EXCEPT ![r].pos = "lock_wait"]
            /\ UNCHANGED <<ingest_lock, running>>
    /\ UNCHANGED <<ingest_task, ingest_status, reply>>

\* the lock is handed to a waiting ingest_corpus (start_ingestion lets no
\* second runner in, so none ever waits and no specification takes this step)
LockGranted(r) ==
    /\ runners[r].pos = "lock_wait"
    /\ ingest_lock = 0
    /\ Scheduled(RunnerCo(r), TRUE)
    /\ ingest_lock' = r
    /\ runners' = [runners EXCEPT ![r].pos = "listing"]
    /\ running' = RunnerCo(r)
    /\ UNCHANGED <<ingest_task, ingest_status, reply>>

\* files = list(iter_corpus_files(corpus_dir)) and the status that follows
ListFiles(r, corpus) ==
    /\ runners[r].pos = "listing"
    /\ Scheduled(RunnerCo(r), FALSE)
    /\ IF corpus = << >>
       THEN /\ ingest_status' = [IdleStatus EXCEPT !.status = "completed"]
            /\ runners' = [runners EXCEPT ![r].pos = "exit"]
       ELSE /\ ingest_status' = [IdleStatus EXCEPT !.status = "processing",
                                                  !.total_documents = Len(corpus)]
            /\ runners' = [runners EXCEPT ![r] =
                              [NoRunner EXCEPT !.pos = "loop", !.files = corpus,
                                               !.total = Len(corpus)]]
    /\ UNCHANGED <<ingest_task, ingest_lock, reply, running>>

\* list(iter_corpus_files(corpus_dir)) raises (the directory walk fails): the
\* exception leaves `async with` and ingest_corpus with the status untouched
ListingRaises(r) ==
    /\ runners[r].pos = "listing"
    /\ Scheduled(RunnerCo(r), FALSE)
    /\ runners' = [runners EXCEPT ![r].pos = "exit", ![r].raised = TRUE]
    /\ UNCHANGED <<ingest_task, ingest_status, ingest_lock, reply, running>>

\* the status ingest_corpus sets after its loop
FinalStatus(processed, total, errors) ==
    [status |-> IF errors = 0 THEN "completed" ELSE "failed",
     documents_processed |-> processed,
     total_documents |-> total]

\* one pass of `for doc_path in files` up to its await, or the end of the loop
\* with the final status and `await self._refresh_entity_cache()`
LoopDocument(r) ==
    /\ runners[r].pos = "loop"
    /\ Scheduled(RunnerCo(r), FALSE)
    /\ IF runners[r].files = << >>
       THEN /\ ingest_status' = FinalStatus(runners[r].processed, runners[r].total,
                                            runners[r].errors)
            /\ runners' = [runners EXCEPT ![r].pos = "refreshing"]
            /\ running' = NoCoroutine
       ELSE LET doc == Head(runners[r].files)
            IN CASE doc = "unreadable" ->
                       /\ runners' = [runners EXCEPT ![r].files = Tail(@),
                                                     ![r].errors = @ + 1]
                       /\ UNCHANGED <<ingest_status, running>>
                 [] doc = "blank" ->
                       /\ runners' = [runners EXCEPT ![r].files = Tail(@)]
                       /\ UNCHANGED <<ingest_status, running>>
                 [] OTHER ->
                       /\ runners' = [runners EXCEPT ![r].pos = "inserting"]
                       /\ running' = NoCoroutine
                       /\ UNCHANGED ingest_status
    /\ UNCHANGED <<ingest_task, ingest_lock, reply>>

\* `await self.insert_documents(...)` returns, or raises into `except Exception`
InsertReturns(r, inserted) ==
    /\ runners[r].pos = "inserting"
    /\ Scheduled(RunnerCo(r), TRUE)
    /\ IF inserted
       THEN /\ runners' = [runners EXCEPT ![r].pos = "loop", ![r].files = Tail(@),
                                          ![r].processed = @ + 1]
            /\ ingest_status' = [ingest_status EXCEPT
                                    !.documents_processed = runners[r].processed + 1]
       ELSE /\ runners' = [runners EXCEPT ![r].pos = "loop", ![r].files = Tail(@),
                                          ![r].errors = @ + 1]
            /\ UNCHANGED ingest_status
    /\ running' = RunnerCo(r)
    /\ UNCHANGED <<ingest_task, ingest_lock, reply>>

\* `await self._refresh_entity_cache()` returns
RefreshReturns(r) ==
    /\ runners[r].pos = "refreshing"
    /\ Scheduled(RunnerCo(r), TRUE)
    /\ runners' = [runners EXCEPT ![r].pos = "exit"]
    /\ running' = RunnerCo(r)
    /\ UNCHANGED <<ingest_task, ingest_status, ingest_lock, reply>>

\* ingest_corpus leaves `async with` and runner() its `finally`
RunnerExit(r) ==
    /\ runners[r].pos = "exit"
    /\ Scheduled(RunnerCo(r), FALSE)
    /\ ingest_lock' = 0
    /\ ingest_task' = 0
    /\ runners' = [runners EXCEPT ![r].pos = "done"]
    /\ running' = NoCoroutine
    /\ UNCHANGED <<ingest_status, reply>>

----------------------------------------------------------------------------
(* POST /documents/ingest and its finalize task *)

\* a finalize task: awaited is the task wait_for_ingestion awaits; accepted
\* records the task self._ingest_task named when the request was answered
\* (the code keeps no such record, the properties refer to it)
NoFinalizer == [pos |-> "unborn", awaited |-> 0, accepted |-> 0]

UnbornFinalizers == {f \in FinalizerIds : finalizers[f].pos = "unborn"}
NextFinalizer == CHOOSE f \in UnbornFinalizers : \A g \in UnbornFinalizers : f <= g

\* ingest_documents: start_ingestion, then asyncio.create_task(finalize())
IngestDocuments ==
    /\ Scheduled(HandlerCo("ingest"), TRUE)
    /\ UnbornFinalizers # {}
    /\ StartIngestion
    /\ finalizers' = [finalizers EXCEPT ![NextFinalizer].pos = "created",
                                        ![NextFinalizer].accepted = ingest_task']
    /\ UNCHANGED <<ingest_lock, running>>

\* finalize() with a wait_for_ingestion that never awaits the task
FinalizeStartUnawaited(f) ==
    /\ finalizers[f].pos = "created"
    /\ Scheduled(FinalizerCo(f), TRUE)
    /\ finalizers' = [finalizers EXCEPT ![f].pos = "load"]
    /\ running' = FinalizerCo(f)

\* finalize(): wait_for_ingestion awaits the task self._ingest_task names now,
\* and returns at once when it names none
FinalizeStart(f) ==
    /\ finalizers[f].pos = "created"
    /\ Scheduled(FinalizerCo(f), TRUE)
    /\ IF ingest_task # 0
       THEN /\ finalizers' = [finalizers EXCEPT ![f].pos = "waiting",
                                                ![f].awaited = ingest_task]
            /\ UNCHANGED running
       ELSE /\ finalizers' = [finalizers EXCEPT ![f].pos = "load"]
            /\ running' = FinalizerCo(f)

\* the awaited task is done (an exception of it is logged and dropped)
FinalizeWake(f) ==
    /\ finalizers[f].pos = "waiting"
    /\ runners[finalizers[f].awaited].pos = "done"
    /\ Scheduled(FinalizerCo(f), TRUE)
    /\ finalizers' = [finalizers EXCEPT ![f].pos = "load"]
    /\ running' = FinalizerCo(f)

\* graph_manager.graph_path = ...; reload_graph(): self.graph is replaced
FinalizeLoad(f, file) ==
    /\ finalizers[f].pos = "load"
    /\ Scheduled(FinalizerCo(f), FALSE)
    /\ graph_file' = file
    /\ graph' = LoadGraph(file)
    /\ finalizers' = [finalizers EXCEPT ![f].pos = "indices"]
    /\ UNCHANGED <<label_index, node_metadata, centrality, running>>

\* reload_graph(): self._build_indices()
FinalizeIndices(f) ==
    /\ finalizers[f].pos = "indices"
    /\ Scheduled(FinalizerCo(f), FALSE)
    /\ label_index' = BuildLabelIndex(graph)
    /\ node_metadata' = BuildNodeMetadata(graph)
    /\ finalizers' = [finalizers EXCEPT ![f].pos = "centrality"]
    /\ UNCHANGED <<graph_file, graph, centrality, running>>

\* reload_graph(): self._compute_centrality(), then
\* `await lightrag.refresh_entity_cache()`
FinalizeCentrality(f, converged) ==
    /\ finalizers[f].pos = "centrality"
    /\ Scheduled(FinalizerCo(f), FALSE)
    /\ centrality' = ComputeCentrality(graph, graph_file.pagerank, converged)
    /\ finalizers' = [finalizers EXCEPT ![f].pos = "refreshing"]
    /\ running' = NoCoroutine
    /\ UNCHANGED <<graph_file, graph, label_index, node_metadata>>

\* `await lightrag.refresh_entity_cache()` returns and finalize() ends
FinalizeEnd(f) ==
    /\ finalizers[f].pos = "refreshing"
    /\ Scheduled(FinalizerCo(f), TRUE)
    /\ finalizers' = [finalizers EXCEPT ![f] = [NoFinalizer EXCEPT !.pos = "done"]]
    /\ UNCHANGED <<snapshotVars, graph_file, running>>

----------------------------------------------------------------------------
(* The query handlers: POST /api/query and the WebSocket loop *)

QueryHandlers == {"http", "ws"}

Snapshot ==
    [graph |-> graph, label_index |-> label_index, node_metadata |-> node_metadata,
     centrality |-> centrality]

NoSnapshot ==
    [graph |-> EmptyGraph, label_index |-> << >>, node_metadata |-> << >>,
     centrality |-> << >>]

\* the locals of a handler; snapshot is what extract_entities ran on, failed
\* tells that the query before was answered with an error
NoTurn == [query |-> "", response |-> "", elapsed |-> 0, include_graph |-> TRUE,
           entities |-> {}, snapshot |-> NoSnapshot, failed |-> FALSE]

\* queries taken up and not failed
QueriesTaken == answered + Cardinality({h \in QueryHandlers : hpc[h] = "awaiting"})

\* the handler takes a query and awaits lightrag.query(...); only the HTTP
\* request has include_graph, the socket always builds the graph
ReceiveQuery(h, query, include_graph) ==
    /\ hpc[h] = "idle"
    /\ Scheduled(HandlerCo(h), TRUE)
    /\ QueriesTaken < MaxQueries
    /\ h = "ws" => include_graph
    /\ hpc' = [hpc EXCEPT ![h] = "awaiting"]
    /\ turn' = [turn EXCEPT ![h] = [NoTurn EXCEPT !.query = query,
                                                  !.include_graph = include_graph]]
    /\ UNCHANGED <<answered, running>>

\* lightrag.query raises: HTTP 500, or an error message on the socket
QueryFails(h) ==
    /\ hpc[h] = "awaiting"
    /\ Scheduled(HandlerCo(h), TRUE)
    /\ hpc' = [hpc EXCEPT ![h] = "idle"]
    /\ turn' = [turn EXCEPT ![h] = [NoTurn EXCEPT !.failed = TRUE]]
    /\ UNCHANGED <<answered, running>>

\* lightrag.query returns (response_text, elapsed)
QueryReturns(h, response, elapsed) ==
    /\ hpc[h] = "awaiting"
    /\ Scheduled(HandlerCo(h), TRUE)
    /\ hpc' = [hpc EXCEPT ![h] = "extract"]
    /\ turn' = [turn EXCEPT ![h].response = response, ![h].elapsed = elapsed]
    /\ answered' = answered + 1
    /\ running' = HandlerCo(h)

\* combined_entities = extract_entities(query) | extract_entities(response_text)
HandlerExtract(h) ==
    /\ hpc[h] = "extract"
    /\ Scheduled(HandlerCo(h), FALSE)
    /\ hpc' = [hpc EXCEPT ![h] = "decay"]
    /\ turn' = [turn EXCEPT
                  ![h].entities = ExtractEntities(turn[h].query)
                                      \cup ExtractEntities(turn[h].response),
                  ![h].snapshot = Snapshot]
    /\ UNCHANGED <<answered, running>>

\* update_conversation_context with an await after apply_temporal_decay()
HandlerDecayAwaiting(h) ==
    /\ hpc[h] = "decay"
    /\ Scheduled(HandlerCo(h), FALSE)
    /\ entity_frequency' = ApplyTemporalDecay(entity_frequency)
    /\ hpc' = [hpc EXCEPT ![h] = "mention"]
    /\ running' = NoCoroutine
    /\ UNCHANGED <<entity_last_seen, statVars, turn, answered>>

\* update_conversation_context, first half: self.apply_temporal_decay()
HandlerDecay(h) ==
    /\ hpc[h] = "decay"
    /\ Scheduled(HandlerCo(h), FALSE)
    /\ entity_frequency' = ApplyTemporalDecay(entity_frequency)
    /\ hpc' = [hpc EXCEPT ![h] = "mention"]
    /\ UNCHANGED <<entity_last_seen, statVars, turn, answered, running>>

\* update_conversation_context, second half: the increments, the last-seen
\* stamps, the last_* fields, the counter and the latency
HandlerMention(h) ==
    /\ hpc[h] = "mention"
    /\ Scheduled(HandlerCo(h), FALSE)
    /\ entity_frequency' =
            [v \in DOMAIN entity_frequency \cup turn[h].entities |->
                IF v \in turn[h].entities
                THEN FreqOf(entity_frequency, v) + unit
                ELSE entity_frequency[v]]
    /\ entity_last_seen' =
            [v \in DOMAIN entity_last_seen \cup turn[h].entities |->
                IF v \in turn[h].entities THEN now ELSE entity_last_seen[v]]
    /\ last_entities' = turn[h].entities
    /\ last_query' = turn[h].query
    /\ last_response' = turn[h].response
    /\ total_queries' = total_queries + 1
    /\ response_times' = Append(response_times, turn[h].elapsed)
    /\ hpc' = [hpc EXCEPT ![h] = IF turn[h].include_graph THEN "build" ELSE "reply"]
    /\ UNCHANGED <<turn, answered, running>>

\* graph_manager.build_contextual_subgraph(combined_entities, ...); an
\* exception of it leaves the handler
HandlerBuild(h) ==
    /\ hpc[h] = "build"
    /\ Scheduled(HandlerCo(h), FALSE)
    /\ BuildContextualSubgraph(turn[h].entities, MAX_HOPS, MAX_GRAPH_NODES)
    /\ hpc' = [hpc EXCEPT ![h] = IF res'.raised THEN "reply" ELSE "render"]
    /\ UNCHANGED <<turn, answered, running>>

\* graph_manager.graph_to_vis_format(subgraph, combined_entities)
HandlerRender(h) ==
    /\ hpc[h] = "render"
    /\ Scheduled(HandlerCo(h), FALSE)
    /\ RenderSubgraph
    /\ hpc' = [hpc EXCEPT ![h] = "reply"]
    /\ UNCHANGED <<turn, answered, running>>

\* the response goes out (or the exception of the build or the rendering does)
HandlerReply(h) ==
    /\ hpc[h] = "reply"
    /\ Scheduled(HandlerCo(h), FALSE)
    /\ IF pc = "idle"
       THEN UNCHANGED <<snapshotVars, contextVars, settingVars, graph_file, now, callVars>>
       ELSE ReturnToCaller
    /\ hpc' = [hpc EXCEPT ![h] = "idle"]
    /\ turn' = [turn EXCEPT ![h] = NoTurn]
    /\ running' = NoCoroutine
    /\ UNCHANGED answered

\* the service right after start-up
InitService ==
    /\ running = NoCoroutine
    /\ hpc = [h \in QueryHandlers |-> "idle"]
    /\ turn = [h \in QueryHandlers |-> NoTurn]
    /\ answered = 0
    /\ ingest_task = 0
    /\ ingest_status = IdleStatus
    /\ ingest_lock = 0
    /\ runners = [r \in RunnerIds |-> NoRunner]
    /\ finalizers = [f \in FinalizerIds |-> NoFinalizer]
    /\ reply = IdleStatus

----------------------------------------------------------------------------
(* Specification of the graph manager: construction, reload, turns, builds *)

Init ==
    /\ \E file \in GraphFiles : \E converged \in BOOLEAN :
          /\ graph_file = file
          /\ graph = LoadGraph(file)
          /\ label_index = BuildLabelIndex(LoadGraph(file))
          /\ node_metadata = BuildNodeMetadata(LoadGraph(file))
          /\ centrality = ComputeCentrality(LoadGraph(file), file.pagerank, converged)
    /\ entity_frequency = << >>
    /\ entity_last_seen = << >>
    /\ total_queries = 0
    /\ response_times = << >>
    /\ last_entities = {}
    /\ last_query = ""
    /\ last_response = ""
    /\ decay_rate = <<DefaultRateNum, DefaultRateDen>>
    /\ unit = Pow(DefaultRateDen, MaxTurns)
    /\ now = 0
    /\ pc = "idle"
    /\ res = NoResult
    /\ vis = NoVis
    /\ ret = NoReturn
    /\ InitService

Reload ==
    /\ \E file \in GraphFiles : \E converged \in BOOLEAN : ReloadGraph(file, converged)
    /\ UNCHANGED serviceVars

Turn ==
    \E q \in Queries : \E r \in Responses : \E entities \in Mentions :
        \E latency \in Latencies :
            UpdateConversationContext(q, r, entities, latency, MaxTurns)
                /\ UNCHANGED serviceVars

Build ==
    \E focal \in FocalSets : \E hops \in HopArgs : \E budget \in NodeArgs :
        BuildContextualSubgraph(focal, hops, budget) /\ UNCHANGED serviceVars

Texts == {"q", "Ann met Bob", "ANN"}

Extract == \E text \in Texts : ExtractEntitiesCall(text) /\ UNCHANGED serviceVars

Score ==
    \E node_id \in Ids : \E focal \in {{}, {node_id}} :
        CalculateNodeImportanceCall(node_id, focal) /\ UNCHANGED serviceVars

Clock == Tick /\ UNCHANGED serviceVars
Render == RenderSubgraph /\ UNCHANGED serviceVars
RenderFull == RenderFullGraph /\ UNCHANGED serviceVars
Return == ReturnToCaller /\ UNCHANGED serviceVars

Next ==
    \/ Reload \/ Turn \/ Clock \/ Build \/ Render \/ RenderFull
    \/ Extract \/ Score \/ Return

Spec == Init /\ [][Next]_vars

----------------------------------------------------------------------------
(* Specification of the conversation context alone: many turns on one      *)
(* snapshot, with decay rates small enough for weights to reach 1e-4       *)

ContextRates == {<<1, 10>>, <<1, 2>>}
ContextMentions == SUBSET {"A", "B"}

InitContext ==
    /\ graph_file = PairsFile
    /\ graph = LoadGraph(PairsFile)
    /\ label_index = BuildLabelIndex(LoadGraph(PairsFile))
    /\ node_metadata = BuildNodeMetadata(LoadGraph(PairsFile))
    /\ centrality = ComputeCentrality(LoadGraph(PairsFile), PairsFile.pagerank, TRUE)
    /\ entity_frequency = << >>
    /\ entity_last_seen = << >>
    /\ total_queries = 0
    /\ response_times = << >>
    /\ last_entities = {}
    /\ last_query = ""
    /\ last_response = ""
    /\ decay_rate \in ContextRates
    /\ unit = Pow(decay_rate[2], MaxDecayTurns)
    /\ now = 0
    /\ pc = "idle"
    /\ res = NoResult
    /\ vis = NoVis
    /\ ret = NoReturn
    /\ InitService

ContextTurn ==
    \E q \in Queries : \E r \in Responses : \E entities \in ContextMentions :
        \E latency \in Latencies :
            UpdateConversationContext(q, r, entities, latency, MaxDecayTurns)
                /\ UNCHANGED serviceVars

NextContext == ContextTurn \/ Clock

SpecContext == InitContext /\ [][NextContext]_vars

----------------------------------------------------------------------------
(* Specification of _ensure_connectivity on its own: the selection it is   *)
(* handed is any set of graph nodes plus the focal entities (the caller    *)
(* has force-included them), the budget is any budget                      *)

EnsureConnectivityCall(chosen, focal_entities, max_nodes) ==
    /\ pc = "idle"
    /\ chosen \subseteq Nodes(graph)
    /\ \E outcome \in EnsureConnectivity(graph, ForceInclude(chosen, focal_entities),
                                          focal_entities, max_nodes) :
          res' = [NoResult EXCEPT
                    !.focal = focal_entities,
                    !.max_nodes = max_nodes,
                    !.empty_graph = NumberOfNodes(graph) = 0,
                    !.before = ForceInclude(chosen, focal_entities),
                    !.after = outcome.selected,
                    !.nodes = SubgraphNodes(graph, outcome.selected),
                    !.edges = SubgraphEdges(graph, outcome.selected),
                    !.raised = outcome.raised]
    /\ pc' = "repaired"
    /\ UNCHANGED <<snapshotVars, contextVars, settingVars, graph_file, now, vis, ret>>

Repair ==
    \E chosen \in SUBSET Ids : \E focal \in FocalSets : \E budget \in NodeArgs :
        EnsureConnectivityCall(chosen, focal, budget) /\ UNCHANGED serviceVars

NextRepair == Repair \/ Return

SpecRepair == Init /\ [][NextRepair]_vars

----------------------------------------------------------------------------
(* Specification of ingestion: POST /documents/ingest requests and the      *)
(* runner tasks they start; the finalize tasks they create read the         *)
(* ingestion state only and stay where they are                             *)

InitIngest ==
    /\ graph_file = PairsFile
    /\ graph = LoadGraph(PairsFile)
    /\ label_index = BuildLabelIndex(LoadGraph(PairsFile))
    /\ node_metadata = BuildNodeMetadata(LoadGraph(PairsFile))
    /\ centrality = ComputeCentrality(LoadGraph(PairsFile), PairsFile.pagerank, TRUE)
    /\ entity_frequency = << >>
    /\ entity_last_seen = << >>
    /\ total_queries = 0
    /\ response_times = << >>
    /\ last_entities = {}
    /\ last_query = ""
    /\ last_response = ""
    /\ decay_rate = <<1, 2>>
    /\ unit = Pow(2, MaxQueries)
    /\ now = 0
    /\ pc = "idle"
    /\ res = NoResult
    /\ vis = NoVis
    /\ ret = NoReturn
    /\ InitService

managerVars == <<graph_file, snapshotVars, contextVars, settingVars, now, callVars>>

Ingest == IngestDocuments /\ UNCHANGED <<managerVars, handlerVars>>

RunnerStep ==
    \E r \in RunnerIds :
        /\ \/ RunnerStart(r)
           \/ \E corpus \in Corpora : ListFiles(r, corpus)
           \/ LoopDocument(r)
           \/ \E inserted \in BOOLEAN : InsertReturns(r, inserted)
           \/ RefreshReturns(r)
           \/ RunnerExit(r)
        /\ UNCHANGED <<managerVars, handlerVars, finalizers>>

NextIngest == Ingest \/ RunnerStep

SpecIngest == InitIngest /\ [][NextIngest]_vars

----------------------------------------------------------------------------
(* Specification of the service: query turns over HTTP and the WebSocket,   *)
(* ingestion requests on an empty corpus directory, and the finalize tasks  *)
(* that reload the graph, all on one event loop                             *)

ServiceFiles == {PathFile, StarFile}
ServiceQueries == {"ANN"}
ServiceResponses == {"r", "Ann met Bob"}

HandlerStep ==
    \E h \in QueryHandlers :
        /\ \/ /\ \E query \in ServiceQueries : \E include_graph \in BOOLEAN :
                    ReceiveQuery(h, query, include_graph)
              /\ UNCHANGED managerVars
           \/ QueryFails(h) /\ UNCHANGED managerVars
           \/ /\ \E response \in ServiceResponses : \E elapsed \in Latencies :
                    QueryReturns(h, response, elapsed)
              /\ UNCHANGED managerVars
           \/ HandlerExtract(h) /\ UNCHANGED managerVars
           \/ /\ HandlerDecay(h)
              /\ UNCHANGED <<graph_file, snapshotVars, settingVars, now, callVars>>
           \/ /\ HandlerMention(h)
              /\ UNCHANGED <<graph_file, snapshotVars, settingVars, now, callVars>>
           \/ HandlerBuild(h)
           \/ HandlerRender(h)
           \/ HandlerReply(h)
        /\ UNCHANGED <<ingestVars, finalizers>>

ReloadsRequested == Cardinality({f \in FinalizerIds : finalizers[f].pos # "unborn"})

ServiceIngest == ReloadsRequested < MaxReloads /\ Ingest

ServiceRunnerStep ==
    \E r \in RunnerIds :
        /\ \/ RunnerStart(r)
           \/ ListFiles(r, << >>)
           \/ RunnerExit(r)
        /\ UNCHANGED <<managerVars, handlerVars, finalizers>>

FinalizeStep ==
    \E f \in FinalizerIds :
        /\ \/ FinalizeStart(f) /\ UNCHANGED <<snapshotVars, graph_file>>
           \/ FinalizeWake(f) /\ UNCHANGED <<snapshotVars, graph_file>>
           \/ \E file \in ServiceFiles : FinalizeLoad(f, file)
           \/ FinalizeIndices(f)
           \/ \E converged \in BOOLEAN : FinalizeCentrality(f, converged)
           \/ FinalizeEnd(f)
        /\ UNCHANGED <<contextVars, settingVars, now, callVars, handlerVars, ingestVars>>

NextService == HandlerStep \/ ServiceIngest \/ ServiceRunnerStep \/ FinalizeStep

SpecService == InitIngest /\ [][NextService]_vars

----------------------------------------------------------------------------
(* Specification of ingestion with its finalize tasks.  The event loop does *)
(* not stop while a task is ready, and an awaited insert or cache refresh   *)
(* comes back (with a result or an exception): weak fairness of the tasks'  *)
(* steps.  Requests are under no fairness: none need ever arrive.           *)

FinalizeFiles == {PathFile}
FinalizeCorpora == {<< >>, <<"text">>}

RunnerTask(r) ==
    /\ \/ RunnerStart(r)
       \/ \E corpus \in FinalizeCorpora : ListFiles(r, corpus)
       \/ ListingRaises(r)
       \/ LoopDocument(r)
       \/ \E inserted \in BOOLEAN : InsertReturns(r, inserted)
       \/ RefreshReturns(r)
       \/ RunnerExit(r)
    /\ UNCHANGED <<managerVars, handlerVars, finalizers>>

FinalizeTask(f) ==
    /\ \/ FinalizeStart(f) /\ UNCHANGED <<snapshotVars, graph_file>>
       \/ FinalizeWake(f) /\ UNCHANGED <<snapshotVars, graph_file>>
       \/ \E file \in FinalizeFiles : FinalizeLoad(f, file)
       \/ FinalizeIndices(f)
       \/ FinalizeCentrality(f, TRUE)
       \/ FinalizeEnd(f)
    /\ UNCHANGED <<contextVars, settingVars, now, callVars, handlerVars, ingestVars>>

FinalizeIngest == ReloadsRequested < MaxAccepted /\ Ingest

RunnerTasks == \E r \in RunnerIds : RunnerTask(r)
FinalizeTasks == \E f \in FinalizerIds : FinalizeTask(f)

NextFinalize == FinalizeIngest \/ RunnerTasks \/ FinalizeTasks

SpecFinalize ==
    /\ InitIngest
    /\ [][NextFinalize]_vars
    /\ WF_vars(RunnerTasks \/ FinalizeTasks)

----------------------------------------------------------------------------
(* Notions the properties share *)

Built == pc = "built"
PresentFocal == res.focal \cap Nodes(graph)
Components(S) == ConnectedComponents(graph, S)
GraphConnected == Cardinality(Components(Nodes(graph))) = 1
Reachable(u, v) == ShortestPathLengthSafe(graph, u, v) # Inf
CeilDiv(a, b) == (a + b - 1) \div b

\* the ids come in the order of IdOrder (string order)
IdLess(u, v) == Position(IdOrder, u) < Position(IdOrder, v)

\* the `size` best candidates when equal scores are ordered by node id
TopByScoreThenId(candidate_nodes, focal_entities, size) ==
    LET score(v) == CalculateNodeImportance(v, focal_entities)
        ahead(u, v) == score(u) > score(v) \/ (score(u) = score(v) /\ IdLess(u, v))
    IN {v \in candidate_nodes :
            Cardinality({u \in candidate_nodes : ahead(u, v)}) < size}

\* S holds `size` nodes of the graph (all of them when there are fewer) and no
\* node outside S has a higher centrality than a node inside
IsTopCentrality(S, size) ==
    /\ S \subseteq Nodes(graph)
    /\ Cardinality(S) = IF NumberOfNodes(graph) < size THEN NumberOfNodes(graph) ELSE size
    /\ \A a \in S : \A b \in Nodes(graph) \ S : CentralityOf(a) >= CentralityOf(b)

\* union of the neighbourhoods of the present focal entities, radius as passed
FocalNeighbourhood == UNION {EgoNodes(graph, f, res.max_hops) : f \in PresentFocal}

----------------------------------------------------------------------------
(* Properties *)

\* C1: a built subgraph has at most max_nodes + |focal entities present in the
\* graph| nodes, repair included.
C1_SizeBound ==
    Built => Cardinality(res.nodes) <= res.max_nodes + Cardinality(PresentFocal)

\* C2: force-inclusion: when the focal set is non-empty and all of it is in the
\* graph, all of it is in the built subgraph.
C2_ForceInclusion ==
    (Built /\ res.focal # {} /\ res.focal \subseteq Nodes(graph))
        => res.focal \subseteq res.nodes

\* a build in which a focal entity did not make the cut by its score
C2_Witness ==
    /\ Built /\ res.focal # {} /\ res.focal \subseteq Nodes(graph)
    /\ ~(res.focal \subseteq res.ranked)
    /\ res.focal \subseteq res.nodes

\* C3: fallback: with an empty focal set on a non-empty graph the built node set
\* is the max_nodes highest-centrality nodes and repair adds nothing.
C3_Fallback ==
    (Built /\ res.focal = {} /\ NumberOfNodes(graph) > 0)
        => /\ IsTopCentrality(res.nodes, res.max_nodes)
           /\ res.after = res.before

\* C4: zero limits are honoured: max_hops = 0 makes the candidate set the present
\* focal entities, max_nodes = 0 leaves only force-included focal entities.
C4_ZeroLimits ==
    (Built /\ ~res.empty_graph)
        => /\ (res.max_hops = 0 /\ PresentFocal # {}) => res.candidates = PresentFocal
           /\ res.max_nodes = 0 => res.nodes \subseteq res.focal

\* C5: truncation keeps the best-scored candidates with equal scores ordered by
\* node id, so the selected node set is one fixed set whatever the order in
\* which the candidates are enumerated.
C5_TieBreakById ==
    (Built /\ ~res.empty_graph)
        => res.before = res.focal \cup
                TopByScoreThenId(res.candidates, res.focal,
                                 OrDefault(res.max_nodes, MAX_GRAPH_NODES))

\* C6: repair never raises, never increases the number of connected components
\* of the selection, and leaves a component that reaches no focal entity as it is.
C6_RepairMonotone ==
    pc = "repaired"
        => /\ ~res.raised
           /\ Cardinality(Components(res.after)) <= Cardinality(Components(res.before))
           /\ \A component \in Components(res.before) :
                (\A v \in component : \A f \in PresentFocal : ~Reachable(v, f))
                    => component \in Components(res.after)

\* a repair that added path nodes and merged components, next to a component
\* that reaches no focal entity
C6_Witness ==
    /\ pc = "repaired"
    /\ res.after # res.before
    /\ Cardinality(Components(res.after)) < Cardinality(Components(res.before))
    /\ \E component \in Components(res.before) :
          \A v \in component : \A f \in PresentFocal : ~Reachable(v, f)

\* C7: with all focal entities in a connected graph and the selection below the
\* budget throughout repair, the built subgraph is connected.
C7_RepairConnects ==
    (/\ Built /\ res.focal # {} /\ res.focal \subseteq Nodes(graph)
     /\ GraphConnected
     /\ res.max_nodes > 0 /\ Cardinality(res.after) < res.max_nodes)
        => Cardinality(Components(res.nodes)) = 1

\* C8: with a focal entity in the graph the candidate set is the union of the
\* max_hops neighbourhoods of the present focal entities, and a built node
\* outside them was added by repair.
C8_CandidateSet ==
    (Built /\ PresentFocal # {})
        => /\ res.candidates = FocalNeighbourhood
           /\ res.nodes \ FocalNeighbourhood \subseteq res.after \ res.before

\* C9: the built value is the subgraph of the current graph induced on the final
\* selection; focal ids outside the graph raise nothing and are not in it.
C9_InducedSubgraph ==
    Built
        => /\ ~res.raised
           /\ res.nodes \subseteq Nodes(graph)
           /\ res.nodes = res.after \cap Nodes(graph)
           /\ res.edges = {e \in graph.edges : e \subseteq res.nodes}
           /\ (res.focal \ Nodes(graph)) \cap res.nodes = {}

\* a build with a focal id outside the graph next to one inside, with an edge
C9_Witness ==
    /\ Built
    /\ res.focal \ Nodes(graph) # {}
    /\ PresentFocal # {}
    /\ res.edges # {}

\* C10: a turn's decay multiplies every tracked weight by the rate (strictly
\* smaller), drops exactly the entries that fall below 1e-4, and so no tracked
\* weight is ever below 1e-4.
C10_DecayStep ==
    total_queries' = total_queries + 1
        => \A v \in DOMAIN entity_frequency \ last_entities' :
              LET below == entity_frequency[v] * RateNum
                               < RateDen * CeilDiv(unit, EvictBelowDen)
              IN /\ below <=> v \notin DOMAIN entity_frequency'
                 /\ ~below => /\ entity_frequency'[v] * RateDen
                                    = entity_frequency[v] * RateNum
                              /\ entity_frequency'[v] < entity_frequency[v]

C10_Decay ==
    /\ [](\A v \in DOMAIN entity_frequency :
              entity_frequency[v] >= CeilDiv(unit, EvictBelowDen))
    /\ [][C10_DecayStep]_vars

\* an entity three turns unmentioned holds rate^3, another one has been evicted
C10_Witness ==
    /\ \E v \in DOMAIN entity_frequency :
          /\ unit % Pow(RateDen, 3) = 0
          /\ entity_frequency[v] = (unit \div Pow(RateDen, 3)) * Pow(RateNum, 3)
    /\ \E v \in DOMAIN entity_last_seen : v \notin DOMAIN entity_frequency

\* what a turn does besides the weights: the counter goes up by one, one latency
\* is appended, every entity of the turn is stamped with the time of the turn,
\* and no last-seen stamp moves backwards
TurnBookkeeping ==
    /\ total_queries' = total_queries + 1
    /\ Len(response_times') = Len(response_times) + 1
    /\ SubSeq(response_times', 1, Len(response_times)) = response_times
    /\ last_entities' \subseteq DOMAIN entity_frequency'
    /\ \A v \in last_entities' : entity_last_seen'[v] = now
    /\ \A v \in DOMAIN entity_last_seen :
          /\ v \in DOMAIN entity_last_seen'
          /\ entity_last_seen'[v] >= entity_last_seen[v]

\* decay evicts the weight w: rate * w < 1e-4
DecayEvicts(w) == w * RateNum < RateDen * CeilDiv(unit, EvictBelowDen)

\* C11: a turn decays every tracked weight once and then adds 1.0 and a
\* last-seen stamp for each entity of the turn: a mentioned entity of weight w
\* ends at rate*w + 1, a new one at 1; the counter goes up by exactly one, one
\* latency is appended, and last-seen stamps never move backwards.
C11_TurnStep ==
    total_queries' # total_queries
        => /\ TurnBookkeeping
           /\ \A v \in last_entities' :
                entity_frequency'[v] * RateDen
                    = FreqOf(entity_frequency, v) * RateNum + unit * RateDen

C11_UpdateOrder == [][C11_TurnStep]_vars

\* C11 as the code has it: a mentioned entity of weight w ends at rate*w + 1
\* when rate*w >= 1e-4, and at 1 when rate*w < 1e-4 (decay has evicted it before
\* the increment) or when it was not tracked; the rest as stated.
C11_TurnStepEvicting ==
    total_queries' # total_queries
        => /\ TurnBookkeeping
           /\ \A v \in last_entities' :
                entity_frequency'[v] * RateDen
                    = (IF DecayEvicts(FreqOf(entity_frequency, v)) THEN 0
                       ELSE FreqOf(entity_frequency, v) * RateNum)
                      + unit * RateDen

C11_UpdateOrderEvicting == [][C11_TurnStepEvicting]_vars

\* a tracked entity whose weight the next decay evicts, with a turn to come, next
\* to an entity mentioned in the last two turns, which holds rate + 1
C11_Witness ==
    /\ total_queries < MaxDecayTurns
    /\ \E v \in DOMAIN entity_frequency :
          DecayEvicts(entity_frequency[v])
    /\ \E v \in last_entities :
          entity_frequency[v] * RateDen = unit * RateNum + unit * RateDen
    /\ now > 0 /\ \E v \in DOMAIN entity_last_seen : entity_last_seen[v] < now

\* C12: calculate_node_importance is deterministic and pure: with the same node,
\* the same focal set and the same graph and context state (frequency map,
\* last-seen map, centrality map, weights) two calls return the same value;
\* nothing outside that state has a part in it.
C12_ScoreStep ==
    UNCHANGED <<snapshotVars, contextVars, settingVars, graph_file>>
        => \A v \in Ids : \A F \in FocalSets :
              CalculateNodeImportance(v, F)' = CalculateNodeImportance(v, F)

C12_ScorePure == [][C12_ScoreStep]_vars

\* the ids a payload lists
ListedIds == {vis.nodes[i].id : i \in DOMAIN vis.nodes}

\* C13: round trip: rendering a built subgraph with the focal set it was built
\* for lists only nodes of the built subgraph, none twice, every link joins two
\* listed nodes, and every focal id that is a node of the graph is listed with
\* is_focal = true.
C13_RoundTrip ==
    pc = "rendered"
        => /\ ListedIds \subseteq res.nodes
           /\ Cardinality(ListedIds) = Len(vis.nodes)
           /\ \A link \in vis.links : {link.source, link.target} \subseteq ListedIds
           /\ \A f \in PresentFocal :
                \E i \in DOMAIN vis.nodes : vis.nodes[i].id = f /\ vis.nodes[i].is_focal

\* the edges of the graph a render call was handed
RenderedEdges == IF pc = "rendered" THEN res.edges ELSE graph.edges

\* the weight the export is to show: the numeric attribute, else 1.0
NumericWeightOrDefault(weight) ==
    IF weight.kind = "number" THEN weight.value ELSE DefaultWeight

\* C14: the weight of every exported link is the edge's numeric weight
\* attribute, 1.0 when the attribute is absent or not numeric, and rendering
\* never fails because of an edge's weight attribute.
C14_LinkWeights ==
    pc \in {"rendered", "rendered_full"}
        => /\ ~vis.raised
           /\ \A e \in RenderedEdges :
                \E link \in vis.links :
                    /\ {link.source, link.target} = e
                    /\ link.weight = NumericWeightOrDefault(graph.eattrs[e].weight)

\* C15: reload_graph never raises: with the graph file missing or unreadable
\* the manager ends with an empty graph, an empty label index, empty node
\* metadata and an empty centrality map, and a following build returns an
\* empty subgraph for any arguments.
C15_ReloadFallback ==
    ~(graph_file.exists /\ graph_file.readable)
        => /\ graph = EmptyGraph
           /\ label_index = << >>
           /\ node_metadata = << >>
           /\ centrality = << >>
           /\ Built => (res.nodes = {} /\ res.edges = {} /\ ~res.raised)

\* a build with focal entities and a budget after the reload of a file that
\* exists, holds nodes and cannot be read
C15_Witness ==
    /\ Built
    /\ graph_file.exists /\ ~graph_file.readable /\ graph_file.nodes # << >>
    /\ res.focal # {} /\ res.max_nodes > 0 /\ res.max_hops > 0
    /\ res.nodes = {}

\* the lower-cased display label of a node of the current graph: its name, else
\* its label, else its title, else its id
OwnBucket(v) ==
    LET data == graph.attrs[v]
    IN Lower(IF data.name # "" THEN data.name
             ELSE IF data.label # "" THEN data.label
             ELSE IF data.title # "" THEN data.title
             ELSE v)

\* C16: after construction and after any reloads every node of the current
\* graph is in exactly one bucket of label_index, the bucket of its own
\* lower-cased resolved label, and no bucket holds an id that is no node of the
\* current graph.
C16_LabelIndex ==
    /\ \A v \in Nodes(graph) :
          /\ OwnBucket(v) \in DOMAIN label_index
          /\ \A l \in DOMAIN label_index : v \in label_index[l] <=> l = OwnBucket(v)
    /\ \A l \in DOMAIN label_index : label_index[l] \subseteq Nodes(graph)

\* a graph, in a conversation under way, in which a named node and a titled
\* node whose labels differ in case share a bucket and another node has its id
\* for a label
C16_Witness ==
    /\ total_queries > 0
    /\ \E l \in DOMAIN label_index : \E u, v \in label_index[l] :
          graph.attrs[u].name # "" /\ graph.attrs[v].title # ""
              /\ graph.attrs[u].name # graph.attrs[v].title
    /\ \E v \in Nodes(graph) : OwnBucket(v) = Lower(v)

\* a step in which build_contextual_subgraph, graph_to_vis_format,
\* extract_entities or calculate_node_importance ran
ReaderStep ==
    /\ pc' # pc
    /\ pc' \in {"built", "rendered", "rendered_full", "matched", "scored"}

\* C19: build_contextual_subgraph, calculate_node_importance, extract_entities
\* and graph_to_vis_format are read-only: the graph, label index, node
\* metadata, centrality map, frequency map with its key set, last-seen map and
\* query statistics are the same after the call, for every argument.
C19_ReaderStep == ReaderStep => UNCHANGED <<snapshotVars, contextVars>>

C19_ReadOnly == [][C19_ReaderStep]_vars

\* a build, with some entity tracked, whose focal set holds an id outside the
\* graph and whose scored candidates include ids that are not tracked
C19_Witness ==
    /\ Built
    /\ DOMAIN entity_frequency # {}
    /\ res.focal \ Nodes(graph) # {}
    /\ res.candidates \ DOMAIN entity_frequency # {}

\* the runner tasks that were created and are not done
LiveRunners == {r \in RunnerIds : runners[r].pos \notin {"unborn", "done"}}

\* the runner tasks inside the body of ingest_corpus
InIngestCorpus ==
    {r \in RunnerIds :
        runners[r].pos \in {"listing", "loop", "inserting", "refreshing", "exit"}}

\* the runs whose final status has been set
FinishedRuns ==
    {r \in RunnerIds : runners[r].pos \in {"refreshing", "exit", "done"}}

\* a runner task at most: no task is live, or the only live one is r
LatestRun(r) == \A q \in RunnerIds : q > r => runners[q].pos = "unborn"

\* a POST /documents/ingest was served in this step
IngestRequestStep == finalizers' # finalizers

\* C20: ingestion is single-flight: at most one ingest_corpus body runs at a
\* time; a start_ingestion call made while an ingestion task is running starts
\* no new task and returns the current status; the status of a finished run is
\* 'completed' exactly when no document failed, else 'failed'; and
\* documents_processed <= total_documents throughout.
C20_State ==
    /\ Cardinality(InIngestCorpus) <= 1
    /\ Cardinality(LiveRunners) <= 1
    /\ ingest_status.documents_processed <= ingest_status.total_documents
    /\ \A r \in FinishedRuns :
          LatestRun(r)
              => /\ ingest_status.status \in {"completed", "failed"}
                 /\ ingest_status.status = "completed" <=> runners[r].errors = 0

C20_StartStep ==
    (IngestRequestStep /\ LiveRunners # {})
        => /\ runners' = runners
           /\ ingest_task' = ingest_task
           /\ ingest_status' = ingest_status
           /\ reply' = ingest_status

----------------------------------------------------------------------------
(* C17: reload_graph against the query handlers *)

\* the label index, the node metadata and the centrality map are those of the
\* graph in place: all four come from one load
SnapshotWhole ==
    /\ label_index = BuildLabelIndex(graph)
    /\ node_metadata = BuildNodeMetadata(graph)
    /\ centrality \in {ComputeCentrality(graph, graph_file.pagerank, converged) :
                          converged \in BOOLEAN}

\* C17: whenever a query handler is about to run extract_entities,
\* build_contextual_subgraph or graph_to_vis_format, the graph, the label
\* index, the node metadata and the centrality map in place come from one
\* load, and the build and the rendering of a turn run on the very snapshot
\* its entities were matched on, however the reloads of the finalize tasks
\* interleave with the handlers.
C17_SnapshotAtomic ==
    \A h \in QueryHandlers :
        /\ hpc[h] \in {"extract", "build", "render"} => SnapshotWhole
        /\ hpc[h] \in {"build", "render"} => turn[h].snapshot = Snapshot

\* the WebSocket turn renders entities it matched on a graph that a finalize
\* task loaded, while the HTTP handler is waiting for its query
C17_Witness ==
    /\ hpc["ws"] = "render"
    /\ turn["ws"].entities # {}
    /\ hpc["http"] = "awaiting"
    /\ graph = LoadGraph(StarFile)
    /\ \E f \in FinalizerIds : finalizers[f].pos \in {"refreshing", "done"}

----------------------------------------------------------------------------
(* C18: the conversation update of a turn *)

\* the handlers whose query has returned and whose update is not complete
MidUpdate == {h \in QueryHandlers : hpc[h] \in {"extract", "decay", "mention"}}

C18_State ==
    /\ total_queries = Len(response_times)
    /\ total_queries + Cardinality(MidUpdate) = answered
    /\ \A h \in MidUpdate : running = HandlerCo(h)
    /\ running = NoCoroutine => total_queries = answered

C18_Step ==
    /\ \A h \in QueryHandlers :
          hpc[h] = "awaiting" /\ hpc'[h] = "idle" => UNCHANGED contextVars
    /\ \A h \in QueryHandlers :
          hpc[h] \in {"decay", "mention"} => hpc'[h] # hpc[h]

\* C18: a query that fails leaves the frequency map, the last-seen map, the
\* turn counter and the latency list as they were; from the return of a
\* successful query to the end of its update (decay, increments, counter,
\* latency) only the handler of that turn takes steps; so whenever the event
\* loop is free, total_queries is the length of response_times and the number
\* of queries that succeeded, over HTTP and the WebSocket alike.
C18_AllOrNothing == []C18_State /\ [][C18_Step]_vars

\* the HTTP query failed and two turns went through, the second one decaying
\* and incrementing a weight of the first
C18_Witness ==
    /\ turn["http"].failed
    /\ running = NoCoroutine
    /\ total_queries = 2
    /\ \E v \in DOMAIN entity_frequency : entity_frequency[v] > unit

----------------------------------------------------------------------------
(* C21: every ingestion request ends in a reload, after the ingestion *)

\* the finalize task has left wait_for_ingestion and has not ended
PastWait(f) == finalizers[f].pos \in {"load", "indices", "centrality", "refreshing"}

\* the finalize task has run reload_graph to its end
Reloaded(f) == finalizers[f].pos \in {"refreshing", "done"}

\* wait_for_ingestion returns only when the task of the request is done
C21_AfterIngestion ==
    \A f \in FinalizerIds :
        PastWait(f) => runners[finalizers[f].accepted].pos = "done"

\* a finalize task runs reload_graph once: past the reload it stays past it
C21_OneReload ==
    \A f \in FinalizerIds : Reloaded(f) => Reloaded(f)'

\* C21: every accepted POST /documents/ingest request is followed by a
\* completed reload_graph of its finalize task, one per request, and the
\* reload starts only when the ingestion task that self._ingest_task named at
\* the time the request was answered is done, whether it returned or raised.
C21_ReloadAfterIngestion ==
    /\ []C21_AfterIngestion
    /\ [][C21_OneReload]_vars
    /\ \A f \in 1 .. MaxAccepted : (finalizers[f].pos = "created") ~> Reloaded(f)

\* a request answered while a run was in progress has reloaded the graph after
\* that run ended by an exception of the directory listing
C21_Witness ==
    \E f \in FinalizerIds :
        /\ f > 1
        /\ finalizers[f].pos = "refreshing"
        /\ finalizers[f].awaited = 1
        /\ finalizers[f].accepted = 1
        /\ runners[1].raised
        /\ graph = LoadGraph(PathFile)

====
